---------------------------- MODULE Spec2Model ----------------------------
(*************************************************************************)
(* A model of goupdate/sortedslice (src/ss.go): SortedSlice[K, V], a     *)
(* slice of kv{Key, Value} kept sorted by key behind a sync.RWMutex.     *)
(* K is modelled as int (zero value 0) and V as int (zero value 0).      *)
(* Indices are 0-based as in the Go code; data[i] of the code is         *)
(* At(d, i) here.                                                        *)
(*************************************************************************)
EXTENDS Integers, Sequences, FiniteSets, TLC

\* ---------------------------------------------------------------- bounds
KeyHi == 3
ValHi == 1

Keys   == 0..KeyHi
Values == 0..ValHi

\* The keys and values of the calls made around Load and Save.
IOKeyHi == 1
IOValHi == 1

IOKeys   == 0..IOKeyHi
IOValues == 0..IOValHi

\* The longest slice, and the largest capacity, an Add around Load and Save
\* may make.
IOMaxLen == 2
\* The threads that share one map.
NThreads == 2
Threads == 1..NThreads

\* The zero values of K and V ("var zero K", "var zero V").
ZeroK == 0
ZeroV == 0

VARIABLES
    data,     \* ss.data: the slice of kv records
    lastOp,   \* the call that ran last: [op, key, val, n]
    ret,      \* what that call returned: [v, k, ok, len]
    calls,    \* the (key, value) pairs the visit function of the last range received
    abs,      \* the key-to-value map the calls so far describe (history variable)
    again     \* the last two calls were both Add (or an alias) with one key (history variable)

\* The file system and the slice's backing array, which Load and Save read.
VARIABLES
    spare,    \* the slots of ss.data's backing array behind len(ss.data): cap - len of them
    file,     \* the file a filename names: [kind, elems]
    saved,    \* the slice whose encoding the file holds (history variable)
    loaded,   \* ss.data is what a Load stored, and no Clear came since
    err,      \* the error the last call returned: "nil", "open", "create", "encode", "decode"
    fresh,    \* the last call was a Load on a map just returned by New (history variable)
    twin      \* a map from New(), made after a Clear and given the same calls since

ioVars == <<spare, file, err, saved, loaded, fresh, twin>>

VARIABLES
    pc,       \* where each thread is in the call it makes
    rw,       \* the sync.RWMutex: [w, pending, readerCount, readerWait]
    loc       \* each thread's locals: the call, its position, what it has read

thVars == <<pc, rw, loc>>

vars == <<data, lastOp, ret, calls, abs, again, ioVars, thVars>>

\* ------------------------------------------------------------- the slice
kv(key, value) == [Key |-> key, Value |-> value]

\* ss.data[i], 0-based
At(d, i) == d[i + 1]

\* ss.data[lo:hi], 0-based, hi exclusive
Slice(d, lo, hi) == SubSeq(d, lo + 1, hi)

\* sort.Search(n, f) with f(i) = ss.data[i].Key >= key: the binary search of
\* the standard library, i, j := 0, n; for i < j { h := (i+j)/2; if !f(h)
\* { i = h + 1 } else { j = h } }; return i
RECURSIVE SearchLoop(_, _, _, _)
SearchLoop(d, key, i, j) ==
    IF i < j
    THEN LET h == (i + j) \div 2
         IN  IF ~(At(d, h).Key >= key)
             THEN SearchLoop(d, key, h + 1, j)
             ELSE SearchLoop(d, key, i, h)
    ELSE i

\* A search whose predicate is ss.data[i].Key > key.
RECURSIVE SearchAboveLoop(_, _, _, _)
SearchAboveLoop(d, key, i, j) ==
    IF i < j
    THEN LET h == (i + j) \div 2
         IN  IF ~(At(d, h).Key > key)
             THEN SearchAboveLoop(d, key, h + 1, j)
             ELSE SearchAboveLoop(d, key, i, h)
    ELSE i

SearchAbove(d, key) == SearchAboveLoop(d, key, 0, Len(d))

Search(d, key) == SearchLoop(d, key, 0, Len(d))

\* ------------------------------------------------- the methods' bodies
\* Add with the new pair appended instead of placed at its index.
AddDataAppended(d, key, value) ==
    LET index == Search(d, key)
    IN  IF index < Len(d) /\ At(d, index).Key = key
        THEN [d EXCEPT ![index + 1].Value = value]
        ELSE Append(d, kv(key, value))

\* Add that leaves the value of a key it finds as it was.
AddDataKeepsOld(d, key, value) ==
    LET index == Search(d, key)
    IN  IF index < Len(d) /\ At(d, index).Key = key
        THEN d
        ELSE Slice(d, 0, index) \o <<kv(key, value)>> \o Slice(d, index, Len(d))

\* Add: the slice after Add(key, value)
AddData(d, key, value) ==
    LET index == Search(d, key)
    IN  IF index < Len(d) /\ At(d, index).Key = key
        THEN [d EXCEPT ![index + 1].Value = value]
        ELSE LET \* ss.data = append(ss.data, kv[K, V]{})
                 grown  == Append(d, kv(ZeroK, ZeroV))
                 \* copy(ss.data[index+1:], ss.data[index:])
                 copied == Slice(grown, 0, index + 1) \o Slice(grown, index, Len(d))
             IN  \* ss.data[index] = kv[K, V]{key, value}
                 [copied EXCEPT ![index + 1] = kv(key, value)]

\* Get: (value, found)
Get(d, key) ==
    LET index == Search(d, key)
    IN  IF index < Len(d) /\ At(d, index).Key = key
        THEN <<At(d, index).Value, TRUE>>
        ELSE <<ZeroV, FALSE>>

\* Find is an alias for Get.
Find(d, key) == Get(d, key)

\* Exist that tests the found entry's key with >= instead of ==.
ExistAtOrAbove(d, key) ==
    LET index == Search(d, key)
    IN  index < Len(d) /\ At(d, index).Key >= key

\* Exist: found
Exist(d, key) ==
    LET index == Search(d, key)
    IN  index < Len(d) /\ At(d, index).Key = key

\* Delete that drops the tail behind the removed entry.
DeleteDataTruncates(d, key) ==
    LET index == Search(d, key)
    IN  IF index < Len(d) /\ At(d, index).Key = key
        THEN Slice(d, 0, index)
        ELSE d

\* Delete that removes the entry at the insertion point whatever its key.
DeleteDataAtIndex(d, key) ==
    LET index == Search(d, key)
    IN  IF index < Len(d)
        THEN Slice(d, 0, index) \o Slice(d, index + 1, Len(d))
        ELSE d

\* Delete: the slice after Delete(key), and (value, found)
DeleteData(d, key) ==
    LET index == Search(d, key)
    IN  IF index < Len(d) /\ At(d, index).Key = key
        THEN Slice(d, 0, index) \o Slice(d, index + 1, Len(d))
        ELSE d

DeleteRet(d, key) ==
    LET index == Search(d, key)
    IN  IF index < Len(d) /\ At(d, index).Key = key
        THEN <<At(d, index).Value, TRUE>>
        ELSE <<ZeroV, FALSE>>

\* Len
LenOf(d) == Len(d)

\* Clear: ss.data = nil
ClearData == << >>

\* The visit function handed to Range and RangeBackward: it records the pair
\* it is called with and returns false on its n-th call (n = 0: never).
Visit(seen, e, n) ==
    [seen |-> Append(seen, <<e.Key, e.Value>>), cont |-> Len(seen) + 1 # n]

\* Range: for _, kv := range ss.data { if !f(kv.Key, kv.Value) { break } }
RECURSIVE RangeLoop(_, _, _, _)
RangeLoop(d, i, seen, n) ==
    IF i < Len(d)
    THEN LET r == Visit(seen, At(d, i), n)
         IN  IF ~r.cont THEN r.seen ELSE RangeLoop(d, i + 1, r.seen, n)
    ELSE seen

\* Range that goes on after the visit function returned false.
RangeNoBreak(d, n) == [i \in 1..Len(d) |-> <<d[i].Key, d[i].Value>>]

Range(d, n) == RangeLoop(d, 0, << >>, n)

\* RangeBackward: for i := 0; i < len(ss.data); i++ { kv := ss.data[len-i-1]; ... }
RECURSIVE RangeBackwardLoop(_, _, _, _)
RangeBackwardLoop(d, i, seen, n) ==
    IF i < Len(d)
    THEN LET r == Visit(seen, At(d, Len(d) - i - 1), n)
         IN  IF ~r.cont THEN r.seen ELSE RangeBackwardLoop(d, i + 1, r.seen, n)
    ELSE seen

\* RangeBackward that walks the slice forwards.
RangeBackwardForwards(d, n) == RangeLoop(d, 0, << >>, n)

RangeBackward(d, n) == RangeBackwardLoop(d, 0, << >>, n)

\* First, Last and their aliases Min, Max
First(d) == IF Len(d) = 0 THEN ZeroV ELSE At(d, 0).Value

Last(d) == IF Len(d) = 0 THEN ZeroV ELSE At(d, Len(d) - 1).Value

Min(d) == First(d)

Max(d) == Last(d)

\* FirstKey, LastKey and their aliases MinKey, MaxKey
FirstKey(d) == IF Len(d) = 0 THEN ZeroK ELSE At(d, 0).Key

\* LastKey that reads the first entry.
LastKeyReadsFirst(d) == IF Len(d) = 0 THEN ZeroK ELSE At(d, 0).Key

\* LastKey that answers -1 on an empty slice.
LastKeyMinusOne(d) == IF Len(d) = 0 THEN -1 ELSE At(d, Len(d) - 1).Key

LastKey(d) == IF Len(d) = 0 THEN ZeroK ELSE At(d, Len(d) - 1).Key

MinKey(d) == FirstKey(d)

MaxKey(d) == LastKey(d)

\* -------------------------------------------------------------- the calls
\* Every call runs under the mutex from its first line to its return
\* (Lock/RLock with a deferred unlock), so with one caller a call is one step.
NoRet == [v |-> ZeroV, k |-> ZeroK, ok |-> FALSE, len |-> 0]

Op(name, key, value, n) == [op |-> name, key |-> key, val |-> value, n |-> n]

\* New: &SortedSlice[K, V]{}
Init ==
    /\ data = << >>
    /\ lastOp = Op("New", ZeroK, ZeroV, 0)
    /\ ret = NoRet
    /\ calls = << >>
    /\ abs = [k \in {} |-> ZeroV]
    /\ again = FALSE
    /\ spare = << >>
    /\ file = [kind |-> "absent", elems |-> << >>]
    /\ saved = << >>
    /\ loaded = FALSE
    /\ err = "nil"
    /\ fresh = FALSE
    /\ twin = [on |-> FALSE, data |-> << >>, spare |-> << >>, ret |-> NoRet, err |-> "nil"]
    /\ pc = [t \in Threads |-> "idle"]
    /\ rw = [w |-> 0, pending |-> FALSE, readerCount |-> 0, readerWait |-> 0]
    /\ loc = [t \in Threads |->
                [op |-> "", i |-> 0, n |-> 0, buf |-> << >>, nested |-> FALSE,
                 index |-> 0, key |-> ZeroK, val |-> ZeroV]]

\* A call that only reads: the slice is left alone.
Reads(name, key, n, r, seen) ==
    /\ lastOp' = Op(name, key, ZeroV, n)
    /\ ret' = r
    /\ calls' = seen
    /\ again' = FALSE
    /\ UNCHANGED <<data, abs, ioVars, thVars>>

AddNames == {"Add", "Set", "Store"}

AddCall(name, key, value) ==
    /\ data' = AddData(data, key, value)
    /\ lastOp' = Op(name, key, value, 0)
    /\ ret' = NoRet
    /\ calls' = << >>
    /\ abs' = [k \in (DOMAIN abs) \cup {key} |-> IF k = key THEN value ELSE abs[k]]
    /\ again' = (lastOp.op \in AddNames /\ lastOp.key = key)
    /\ UNCHANGED <<ioVars, thVars>>

CallAdd == \E key \in Keys, value \in Values : AddCall("Add", key, value)

CallSet == \E key \in Keys, value \in Values : AddCall("Set", key, value)

CallStore == \E key \in Keys, value \in Values : AddCall("Store", key, value)

CallGet ==
    \E key \in Keys :
        Reads("Get", key, 0, [NoRet EXCEPT !.v = Get(data, key)[1], !.ok = Get(data, key)[2]], << >>)

CallFind ==
    \E key \in Keys :
        Reads("Find", key, 0, [NoRet EXCEPT !.v = Find(data, key)[1], !.ok = Find(data, key)[2]], << >>)

CallExist ==
    \E key \in Keys : Reads("Exist", key, 0, [NoRet EXCEPT !.ok = Exist(data, key)], << >>)

DeleteCall(name, key) ==
    /\ data' = DeleteData(data, key)
    /\ lastOp' = Op(name, key, ZeroV, 0)
    /\ ret' = [NoRet EXCEPT !.v = DeleteRet(data, key)[1], !.ok = DeleteRet(data, key)[2]]
    /\ calls' = << >>
    /\ abs' = [k \in (DOMAIN abs) \ {key} |-> abs[k]]
    /\ again' = FALSE
    /\ UNCHANGED <<ioVars, thVars>>

CallDelete == \E key \in Keys : DeleteCall("Delete", key)

\* Remove is an alias for Delete.
CallRemove == \E key \in Keys : DeleteCall("Remove", key)

CallLen == Reads("Len", ZeroK, 0, [NoRet EXCEPT !.len = LenOf(data)], << >>)

CallClear ==
    /\ data' = ClearData
    /\ lastOp' = Op("Clear", ZeroK, ZeroV, 0)
    /\ ret' = NoRet
    /\ calls' = << >>
    /\ abs' = [k \in {} |-> ZeroV]
    /\ again' = FALSE
    /\ UNCHANGED <<ioVars, thVars>>

\* The visit function's stopping call n ranges over "never" (0), every call
\* it can receive, and one past the last.
CallRange ==
    \E n \in 0..(Len(data) + 1) : Reads("Range", ZeroK, n, NoRet, Range(data, n))

CallRangeBackward ==
    \E n \in 0..(Len(data) + 1) :
        Reads("RangeBackward", ZeroK, n, NoRet, RangeBackward(data, n))

CallFirst == Reads("First", ZeroK, 0, [NoRet EXCEPT !.v = First(data)], << >>)

CallLast == Reads("Last", ZeroK, 0, [NoRet EXCEPT !.v = Last(data)], << >>)

CallMin == Reads("Min", ZeroK, 0, [NoRet EXCEPT !.v = Min(data)], << >>)

CallMax == Reads("Max", ZeroK, 0, [NoRet EXCEPT !.v = Max(data)], << >>)

CallFirstKey == Reads("FirstKey", ZeroK, 0, [NoRet EXCEPT !.k = FirstKey(data)], << >>)

CallLastKey == Reads("LastKey", ZeroK, 0, [NoRet EXCEPT !.k = LastKey(data)], << >>)

CallMinKey == Reads("MinKey", ZeroK, 0, [NoRet EXCEPT !.k = MinKey(data)], << >>)

CallMaxKey == Reads("MaxKey", ZeroK, 0, [NoRet EXCEPT !.k = MaxKey(data)], << >>)

Next ==
    \/ CallAdd
    \/ CallSet
    \/ CallStore
    \/ CallGet
    \/ CallFind
    \/ CallExist
    \/ CallDelete
    \/ CallRemove
    \/ CallLen
    \/ CallClear
    \/ CallRange
    \/ CallRangeBackward
    \/ CallFirst
    \/ CallLast
    \/ CallMin
    \/ CallMax
    \/ CallFirstKey
    \/ CallLastKey
    \/ CallMinKey
    \/ CallMaxKey

Spec == Init /\ [][Next]_vars

\* ------------------------------------------------- Load, Save and the file
\* The backing array of ss.data: the slice m.data and, behind it, the
\* m.spare slots up to its capacity. Get, Add and Delete never read the spare
\* slots; gob's decoder does, when it re-slices ss.data.
Zeros(n) == [i \in 1..n |-> kv(ZeroK, ZeroV)]

Arr(d, sp) == [data |-> d, spare |-> sp]

Result(d, sp, r, e) == [data |-> d, spare |-> sp, ret |-> r, err |-> e]

\* The capacities append may give a slice of capacity cap that has to grow
\* to `need` slots: the language leaves the choice to the implementation; the
\* runtime doubles a small slice, and an exact fit is the least it can do.
GrowCaps(need, cap) == {need, IF 2 * cap > need THEN 2 * cap ELSE need}

\* Add with the backing array: an insertion takes the first spare slot, or
\* moves to a new zeroed array of capacity c when there is none.
AddArr(m, key, value, c) ==
    LET d == AddData(m.data, key, value)
    IN  Result(d,
               IF Len(d) = Len(m.data) THEN m.spare
               ELSE IF Len(m.spare) > 0 THEN Tail(m.spare)
               ELSE Zeros(c - Len(d)),
               NoRet, "nil")

\* Delete with the backing array: append(ss.data[:index], ss.data[index+1:]...)
\* moves the tail one slot left and leaves the old last entry in the slot behind.
DeleteArr(m, key) ==
    LET d == DeleteData(m.data, key)
        r == DeleteRet(m.data, key)
    IN  Result(d,
               IF Len(d) = Len(m.data) THEN m.spare
               ELSE <<m.data[Len(m.data)]>> \o m.spare,
               [NoRet EXCEPT !.v = r[1], !.ok = r[2]], "nil")

\* Clear that keeps the backing array: ss.data = ss.data[:0]
ClearArrKeepsArray(m) == Result(<< >>, m.data \o m.spare, NoRet, "nil")

\* Clear: ss.data = nil, no backing array
ClearArr(m) == Result(ClearData, << >>, NoRet, "nil")

GetArr(m, key) ==
    Result(m.data, m.spare,
           [NoRet EXCEPT !.v = Get(m.data, key)[1], !.ok = Get(m.data, key)[2]], "nil")

LenArr(m) == Result(m.data, m.spare, [NoRet EXCEPT !.len = LenOf(m.data)], "nil")

\* encoding/gob: a struct is sent as its fields that are not the zero value
\* of their type; here a field sent is a one-element sequence, a field left
\* out the empty one.
EncodeElem(e) ==
    [k |-> IF e.Key = ZeroK THEN << >> ELSE <<e.Key>>,
     v |-> IF e.Value = ZeroV THEN << >> ELSE <<e.Value>>]

\* encoder.Encode(ss.data): the length and the entries in order
Encode(d) == [i \in 1..Len(d) |-> EncodeElem(d[i])]

\* A decoder that stores the value field only.
DecodeElemValueOnly(slot, enc) ==
    [Key   |-> slot.Key,
     Value |-> IF enc.v = << >> THEN slot.Value ELSE enc.v[1]]

\* encoding/gob decoding a struct into slot: the fields received are stored,
\* the others are left as the slot has them.
DecodeElem(slot, enc) ==
    [Key   |-> IF enc.k = << >> THEN slot.Key ELSE enc.k[1],
     Value |-> IF enc.v = << >> THEN slot.Value ELSE enc.v[1]]

NoFile == [kind |-> "absent", elems |-> << >>]

\* What decoder.Decode(&ss.data) can come to on file f: it stores every
\* entry (0), or fails before it stores anything (-1: the file is cut short,
\* or holds another type), or fails at entry j (j >= 1: an entry it cannot
\* decode into K and V, such as a number out of range for a narrower type).
DecodeOutcomes(f) ==
    IF f.kind = "intact" THEN (-1)..Len(f.elems) ELSE {-1}

\* Load: os.Open fails on a missing file. Decoding a slice of n entries into
\* ss.data re-slices ss.data to n when its capacity is at least n and makes a
\* new zeroed slice otherwise, then decodes entry by entry into the slots,
\* until the entry `out` fails.
LoadArr(m, f, out) ==
    IF f.kind = "absent" THEN Result(m.data, m.spare, NoRet, "open")
    ELSE IF out = -1 THEN Result(m.data, m.spare, NoRet, "decode")
    ELSE LET n    == Len(f.elems)
             arr  == m.data \o m.spare
             base == IF Len(arr) < n THEN Zeros(n) ELSE SubSeq(arr, 1, n)
             rest == IF Len(arr) < n THEN << >> ELSE SubSeq(arr, n + 1, Len(arr))
             stop == IF out = 0 THEN n + 1 ELSE out
         IN  Result([i \in 1..n |-> IF i < stop THEN DecodeElem(base[i], f.elems[i])
                                                ELSE base[i]],
                    rest, NoRet,
                    IF out = 0 THEN "nil" ELSE "decode")

\* Save: os.Create fails ("create") and leaves the file alone, or the write
\* fails part-way ("encode") and leaves a file cut short, or the file holds
\* the encoded slice.
SaveFile(d, f, out) ==
    IF out = "create" THEN f
    ELSE IF out = "encode" THEN [kind |-> "truncated", elems |-> << >>]
    ELSE [kind |-> "intact", elems |-> Encode(d)]

SaveErr(out) == IF out = "ok" THEN "nil" ELSE out

\* A call of the calls below, applied to a map m with the file f; c is the
\* capacity append gives the slice if it has to grow. A Load's call.n is what
\* its decoder comes to.
Apply(m, f, call, c) ==
    CASE call.op = "Add"    -> AddArr(m, call.key, call.val, c)
      [] call.op = "Delete" -> DeleteArr(m, call.key)
      [] call.op = "Clear"  -> ClearArr(m)
      [] call.op = "Get"    -> GetArr(m, call.key)
      [] call.op = "Len"    -> LenArr(m)
      [] call.op = "Load"   -> LoadArr(m, f, call.n)
      [] OTHER              -> Result(m.data, m.spare, NoRet, "nil")

NoTwin == [on |-> FALSE, data |-> << >>, spare |-> << >>, ret |-> NoRet, err |-> "nil"]

\* The caller makes `call` on the map; the twin map gets the same call. The
\* history variable abs is not kept here: Load stores what it decodes; lastOp
\* keeps the call's name, and a Load's outcome.
Do(call, c) ==
    LET r == Apply(Arr(data, spare), file, call, c)
        t == Apply(Arr(twin.data, twin.spare), file, call, c)
    IN  /\ data' = r.data
        /\ spare' = r.spare
        /\ ret' = r.ret
        /\ err' = r.err
        /\ lastOp' = Op(call.op, ZeroK, ZeroV, call.n)
        /\ calls' = << >>
        /\ abs' = abs
        /\ loaded' = IF call.op = "Clear" THEN FALSE
                      ELSE IF call.op = "Load" /\ call.n >= 0 /\ file.kind # "absent" THEN TRUE
                      ELSE loaded
        /\ again' = FALSE
        /\ fresh' = (call.op = "Load" /\ lastOp.op = "New")
        /\ twin' = IF twin.on
                   THEN [on |-> TRUE, data |-> t.data, spare |-> t.spare,
                         ret |-> t.ret, err |-> t.err]
                   ELSE twin
        /\ UNCHANGED thVars

\* Right after a Clear the caller makes a second map with New(), and from then
\* on makes every call on both.
Fork ==
    /\ lastOp.op = "Clear"
    /\ ~twin.on
    /\ twin' = [on |-> TRUE, data |-> << >>, spare |-> << >>, ret |-> NoRet, err |-> "nil"]
    /\ UNCHANGED <<data, lastOp, ret, calls, abs, again, spare, file, err, saved, loaded, fresh, thVars>>

\* A slice that Load stored need not be sorted: the calls that search it are
\* made on the slices that Add, Delete and Clear keep.
IOAdd ==
    \E key \in IOKeys, value \in IOValues :
        \E c \in GrowCaps(Len(data) + 1, Len(data) + Len(spare)) :
            /\ ~loaded
            /\ Len(AddData(data, key, value)) <= IOMaxLen
            /\ c <= IOMaxLen
            /\ Do(Op("Add", key, value, 0), c)
            /\ UNCHANGED <<file, saved>>

IODelete ==
    \E key \in IOKeys :
        /\ ~loaded
        /\ Do(Op("Delete", key, ZeroV, 0), 0)
        /\ UNCHANGED <<file, saved>>

IOClear == Do(Op("Clear", ZeroK, ZeroV, 0), 0) /\ UNCHANGED <<file, saved>>

IOGet ==
    \E key \in IOKeys :
        /\ ~loaded
        /\ Do(Op("Get", key, ZeroV, 0), 0)
        /\ UNCHANGED <<file, saved>>

IOLen == Do(Op("Len", ZeroK, ZeroV, 0), 0) /\ UNCHANGED <<file, saved>>

IOLoad ==
    \E out \in DecodeOutcomes(file) :
        /\ Do(Op("Load", ZeroK, ZeroV, out), 0)
        /\ UNCHANGED <<file, saved>>

IOSave ==
    \E out \in {"ok", "create", "encode"} :
        /\ ~loaded
        /\ file' = SaveFile(data, file, out)
        /\ err' = SaveErr(out)
        /\ saved' = IF out = "ok" THEN data ELSE IF out = "encode" THEN << >> ELSE saved
        /\ lastOp' = Op("Save", ZeroK, ZeroV, 0)
        /\ ret' = NoRet
        /\ calls' = << >>
        /\ again' = FALSE
        /\ fresh' = FALSE
        /\ UNCHANGED <<data, spare, abs, loaded, twin, thVars>>

\* The caller goes on with a map just made by New(); the file stays.
IONew ==
    /\ data' = << >>
    /\ spare' = << >>
    /\ lastOp' = Op("New", ZeroK, ZeroV, 0)
    /\ ret' = NoRet
    /\ err' = "nil"
    /\ calls' = << >>
    /\ again' = FALSE
    /\ loaded' = FALSE
    /\ fresh' = FALSE
    /\ twin' = NoTwin
    /\ UNCHANGED <<abs, file, saved, thVars>>

\* os.Remove(filename)
RemoveFile ==
    /\ file.kind # "absent"
    /\ file' = NoFile
    /\ saved' = << >>
    /\ UNCHANGED <<data, lastOp, ret, calls, abs, again, spare, err, loaded, fresh, twin, thVars>>

NextIO ==
    \/ IOAdd
    \/ IODelete
    \/ IOClear
    \/ IOLoad
    \/ IOSave
    \/ IONew
    \/ RemoveFile

SpecIO == Init /\ [][NextIO]_vars

\* The calls around a Clear, made on the map and on a map New() returned.
NextClear ==
    \/ IOAdd
    \/ IODelete
    \/ IOClear
    \/ IOGet
    \/ IOLen
    \/ IONew
    \/ Fork

SpecClear == Init /\ [][NextClear]_vars

\* ------------------------------------------------------------------
\* Threads sharing one map. Every method takes the embedded sync.RWMutex on
\* its first line and releases it (defer) when it returns; between the two a
\* thread is inside its guarded section. A thread decides which method of
\* the kind it called (one that reads, one that writes) once it is inside.
\* The array's spare capacity is not followed here.

\* sync.RWMutex. readerCount counts the RLock holders and waiters; Lock
\* subtracts rwmutexMaxReaders from it, which is `pending` here.

\* RLock that never waits.
AdmittedAlways(r) == TRUE

\* RLock that waits only while a writer is inside, not for one that waits.
AdmittedUnlessWriting(r) == ~(r.pending /\ r.readerWait = 0)

\* RLock: if rw.readerCount.Add(1) < 0 { a writer is pending, wait for it }
Admitted(r) == ~r.pending

RLockRW(r) == [r EXCEPT !.readerCount = @ + 1]

\* RUnlock that never lets the writer know.
RUnlockRWNoSignal(r) == [r EXCEPT !.readerCount = @ - 1]

\* RUnlock: if r := rw.readerCount.Add(-1); r < 0 { rw.rUnlockSlow(r) }, and
\* rUnlockSlow: if rw.readerWait.Add(-1) == 0 { release rw.writerSem }
RUnlockRW(r) ==
    [r EXCEPT !.readerCount = @ - 1,
              !.readerWait = IF r.pending THEN @ - 1 ELSE @]

\* A Lock that leaves out the read holds of the thread that calls it.
ReaderHoldsOfOthers(r, own) == r.readerCount - own

\* The readers a Lock has to wait for: all that hold the mutex, whoever
\* holds them.
ReaderHolds(r, own) == r.readerCount

\* Lock that does not wait for the readers inside.
LockRWNoWait(r, t, own) == [r EXCEPT !.w = t, !.pending = TRUE]

\* Lock: rw.w.Lock(); r := rw.readerCount.Add(-rwmutexMaxReaders) +
\* rwmutexMaxReaders; if r != 0 && rw.readerWait.Add(r) != 0 { wait on
\* rw.writerSem }
LockRW(r, t, own) ==
    [r EXCEPT !.w = t, !.pending = TRUE, !.readerWait = @ + ReaderHolds(r, own)]

\* A writer that goes in whoever is inside.
WriterMayEnterAlways(r) == TRUE

\* rw.writerSem is released when readerWait reaches 0.
WriterMayEnter(r) == r.readerWait = 0

\* Unlock: rw.readerCount.Add(rwmutexMaxReaders), release rw.readerSem once
\* for every reader that waits, rw.w.Unlock()
UnlockRW(r) == [r EXCEPT !.w = 0, !.pending = FALSE]

\* The readers Unlock lets go are inside from then on.
Woken(p) == [u \in Threads |-> IF p[u] = "rblocked" THEN "rin" ELSE p[u]]

NoLoc ==
    [op |-> "", i |-> 0, n |-> 0, buf |-> << >>, nested |-> FALSE,
     index |-> 0, key |-> ZeroK, val |-> ZeroV]

\* Where a thread is when its call returns: in the visit function that made
\* the call, or between calls.
Back(t) == IF loc[t].nested THEN "cb" ELSE "idle"

\* The read holds a thread has when it makes a call: that of the Range
\* whose visit function makes it.
Own(t) == IF loc[t].nested THEN 1 ELSE 0

\* What the calls of threads never touch.
aside == <<calls, again, spare, loaded, fresh, twin>>

\* ss.RLock() on the first line of a method that reads
RLock(t) ==
    /\ pc[t] = "idle"
    /\ rw' = RLockRW(rw)
    /\ pc' = [pc EXCEPT ![t] = IF Admitted(rw) THEN "rin" ELSE "rblocked"]
    /\ UNCHANGED <<data, abs, lastOp, ret, file, saved, err, loc, aside>>

\* The calls that read and return at once, and what they return.
ReadCalls ==
    {Op(name, key, ZeroV, 0) : name \in {"Get", "Exist"}, key \in IOKeys}
        \cup {Op(name, ZeroK, ZeroV, 0) :
                name \in {"Len", "First", "Last", "FirstKey", "LastKey"}}

ReadRet(d, call) ==
    CASE call.op = "Get"      -> [NoRet EXCEPT !.v = Get(d, call.key)[1],
                                               !.ok = Get(d, call.key)[2]]
      [] call.op = "Exist"    -> [NoRet EXCEPT !.ok = Exist(d, call.key)]
      [] call.op = "Len"      -> [NoRet EXCEPT !.len = LenOf(d)]
      [] call.op = "First"    -> [NoRet EXCEPT !.v = First(d)]
      [] call.op = "Last"     -> [NoRet EXCEPT !.v = Last(d)]
      [] call.op = "FirstKey" -> [NoRet EXCEPT !.k = FirstKey(d)]
      [] OTHER                -> [NoRet EXCEPT !.k = LastKey(d)]

\* What a call returned is kept where a specification is told to (rec).
Returns(rec, call, r, e) ==
    IF rec
    THEN lastOp' = call /\ ret' = r /\ err' = e
    ELSE UNCHANGED <<lastOp, ret, err>>

\* The call returns: its deferred RUnlock runs.
ReadDone(t, rec, call, r, e) ==
    /\ Returns(rec, call, r, e)
    /\ rw' = RUnlockRW(rw)
    /\ pc' = [pc EXCEPT ![t] = Back(t)]
    /\ loc' = [loc EXCEPT ![t] = IF loc[t].nested
                                 THEN [loc[t] EXCEPT !.nested = FALSE]
                                 ELSE NoLoc]

\* Get, Exist, Len, First, Last, FirstKey, LastKey
Read(t, rec) ==
    /\ pc[t] = "rin"
    /\ \E call \in ReadCalls : ReadDone(t, rec, call, ReadRet(data, call), "nil")
    /\ UNCHANGED <<data, abs, file, saved, aside>>

\* Range, RangeBackward (the two differ in the order of the visits only): an
\* empty slice has nothing to visit; else f is called with the first entry.
RangeBegin(t, rec) ==
    /\ pc[t] = "rin"
    /\ ~loc[t].nested
    /\ IF Len(data) = 0
       THEN /\ ReadDone(t, rec, Op("Range", ZeroK, ZeroV, 0), NoRet, "nil")
       ELSE /\ pc' = [pc EXCEPT ![t] = "cb"]
            /\ loc' = [loc EXCEPT ![t] = [NoLoc EXCEPT !.op = "Range", !.i = 1]]
            /\ UNCHANGED <<rw, lastOp, ret, err>>
    /\ UNCHANGED <<data, abs, file, saved, aside>>

\* f returns; Range goes on with the next entry if f returned true and there
\* is one, and returns otherwise.
CallbackReturn(t, rec) ==
    /\ pc[t] = "cb"
    /\ \E more \in BOOLEAN :
          IF more /\ loc[t].i < Len(data)
          THEN /\ loc' = [loc EXCEPT ![t].i = @ + 1]
               /\ UNCHANGED <<pc, rw, lastOp, ret, err>>
          ELSE /\ ~more \/ loc[t].i = Len(data)
               /\ ReadDone(t, rec, Op("Range", ZeroK, ZeroV, loc[t].i), NoRet, "nil")
    /\ UNCHANGED <<data, abs, file, saved, aside>>

\* Save: os.Create, then encoder.Encode(ss.data) on the slice as it is now:
\* its length is read once, its entries one after the other.
SaveBegin(t) ==
    /\ pc[t] = "rin"
    /\ ~loc[t].nested
    /\ pc' = [pc EXCEPT ![t] = "save"]
    /\ loc' = [loc EXCEPT ![t] = [NoLoc EXCEPT !.op = "Save", !.n = Len(data)]]
    /\ UNCHANGED <<data, abs, rw, lastOp, ret, err, file, saved, aside>>

SaveEncode(t) ==
    /\ pc[t] = "save"
    /\ loc[t].i < loc[t].n
    /\ loc' = [loc EXCEPT
                 ![t].i = @ + 1,
                 ![t].buf = Append(@, EncodeElem(IF loc[t].i < Len(data)
                                                 THEN At(data, loc[t].i)
                                                 ELSE kv(ZeroK, ZeroV)))]
    /\ UNCHANGED <<data, abs, pc, rw, lastOp, ret, err, file, saved, aside>>

\* The encoder writes the message, loc[t].buf, to the file; Save returns.
\* Threads save under names that no Load made here reads.
SaveEnd(t, rec) ==
    /\ pc[t] = "save"
    /\ loc[t].i = loc[t].n
    /\ ReadDone(t, rec, Op("Save", ZeroK, ZeroV, 0), NoRet, "nil")
    /\ UNCHANGED <<data, abs, file, saved, aside>>

\* ss.Lock() on the first line of a method that writes: rw.w.Lock() first
Lock(t) ==
    /\ pc[t] = "idle"
    /\ pc' = [pc EXCEPT ![t] = "wantw"]
    /\ UNCHANGED <<data, abs, rw, lastOp, ret, file, saved, err, loc, aside>>

\* rw.w is free: the thread takes it and tells the readers it is there.
Acquire(t) ==
    /\ pc[t] = "wantw"
    /\ rw.w = 0
    /\ rw' = LockRW(rw, t, Own(t))
    /\ pc' = [pc EXCEPT ![t] = IF LockRW(rw, t, Own(t)).readerWait = 0
                               THEN "win" ELSE "wwait"]
    /\ UNCHANGED <<data, abs, lastOp, ret, file, saved, err, loc, aside>>

\* The last reader that was inside has left.
Enter(t) ==
    /\ pc[t] = "wwait"
    /\ WriterMayEnter(rw)
    /\ pc' = [pc EXCEPT ![t] = "win"]
    /\ UNCHANGED <<data, abs, rw, lastOp, ret, file, saved, err, loc, aside>>

\* The call returns: its deferred Unlock runs.
WriteDone(t, rec, call, r, e) ==
    /\ Returns(rec, call, r, e)
    /\ rw' = UnlockRW(rw)
    /\ pc' = Woken([pc EXCEPT ![t] = Back(t)])
    /\ loc' = [loc EXCEPT ![t] = IF loc[t].nested
                                 THEN [loc[t] EXCEPT !.nested = FALSE]
                                 ELSE NoLoc]

\* Add of a key that is there: ss.data[index].Value = value
AddReplace(t, rec) ==
    /\ pc[t] = "win"
    /\ \E key \in IOKeys, value \in IOValues :
          /\ Exist(data, key)
          /\ data' = AddData(data, key, value)
          /\ abs' = [abs EXCEPT ![key] = value]
          /\ WriteDone(t, rec, Op("Add", key, value, 0), NoRet, "nil")
    /\ UNCHANGED <<file, saved, aside>>

\* append(ss.data, kv[K, V]{}) and copy(ss.data[index+1:], ss.data[index:])
AddShifted(d, index) ==
    [i \in 1..(Len(d) + 1) |->
        IF i <= index + 1
        THEN IF i <= Len(d) THEN d[i] ELSE kv(ZeroK, ZeroV)
        ELSE d[i - 1]]

\* Add of a key that is not there, up to the copy
AddShift(t) ==
    /\ pc[t] = "win"
    /\ \E key \in IOKeys, value \in IOValues :
          /\ ~Exist(data, key)
          /\ Len(data) < IOMaxLen
          /\ data' = AddShifted(data, Search(data, key))
          /\ loc' = [loc EXCEPT ![t].index = Search(data, key),
                                ![t].key = key, ![t].val = value]
    /\ pc' = [pc EXCEPT ![t] = "wadd"]
    /\ UNCHANGED <<abs, rw, lastOp, ret, file, saved, err, aside>>

\* ss.data[index] = kv[K, V]{key, value}
AddAssign(t, rec) ==
    /\ pc[t] = "wadd"
    /\ data' = [data EXCEPT ![loc[t].index + 1] = kv(loc[t].key, loc[t].val)]
    /\ abs' = [k \in (DOMAIN abs) \cup {loc[t].key} |->
                 IF k = loc[t].key THEN loc[t].val ELSE abs[k]]
    /\ WriteDone(t, rec, Op("Add", loc[t].key, loc[t].val, 0), NoRet, "nil")
    /\ UNCHANGED <<file, saved, aside>>

\* Delete of a key that is not there
DeleteMiss(t, rec) ==
    /\ pc[t] = "win"
    /\ \E key \in IOKeys :
          /\ ~Exist(data, key)
          /\ WriteDone(t, rec, Op("Delete", key, ZeroV, 0),
                       [NoRet EXCEPT !.v = DeleteRet(data, key)[1],
                                     !.ok = DeleteRet(data, key)[2]], "nil")
    /\ UNCHANGED <<data, abs, file, saved, aside>>

\* append(ss.data[:index], ss.data[index+1:]...) moves the entries behind
\* index one place down in the array
DeleteShifted(d, index) ==
    [i \in 1..Len(d) |-> IF i <= index \/ i = Len(d) THEN d[i] ELSE d[i + 1]]

\* Delete of a key that is there, up to the move: value := ss.data[index].Value
DeleteShift(t) ==
    /\ pc[t] = "win"
    /\ \E key \in IOKeys :
          /\ Exist(data, key)
          /\ data' = DeleteShifted(data, Search(data, key))
          /\ loc' = [loc EXCEPT ![t].index = Search(data, key), ![t].key = key,
                                ![t].val = At(data, Search(data, key)).Value]
    /\ pc' = [pc EXCEPT ![t] = "wdel"]
    /\ UNCHANGED <<abs, rw, lastOp, ret, file, saved, err, aside>>

\* ss.data = the slice one entry shorter; return value, true
DeleteCut(t, rec) ==
    /\ pc[t] = "wdel"
    /\ data' = Slice(data, 0, Len(data) - 1)
    /\ abs' = [k \in (DOMAIN abs) \ {loc[t].key} |-> abs[k]]
    /\ WriteDone(t, rec, Op("Delete", loc[t].key, ZeroV, 0),
                 [NoRet EXCEPT !.v = loc[t].val, !.ok = TRUE], "nil")
    /\ UNCHANGED <<file, saved, aside>>

\* Clear
ClearAll(t, rec) ==
    /\ pc[t] = "win"
    /\ data' = ClearData
    /\ abs' = [k \in {} |-> ZeroV]
    /\ WriteDone(t, rec, Op("Clear", ZeroK, ZeroV, 0), NoRet, "nil")
    /\ UNCHANGED <<file, saved, aside>>

\* The files the threads load: a name with no file, and a file saved from a
\* map without entries. (The Loads that decode entries into the array are
\* made in SpecIO.)
LoadFiles == {NoFile, [kind |-> "intact", elems |-> Encode(<< >>)]}

\* Load: with no file os.Open fails; the file of no entries cuts the slice
\* to no entries.
LoadNone(t, rec) ==
    /\ pc[t] = "win"
    /\ \E f \in LoadFiles :
          /\ data' = LoadArr(Arr(data, << >>), f, 0).data
          /\ abs' = IF f.kind = "absent" THEN abs ELSE [k \in {} |-> ZeroV]
          /\ WriteDone(t, rec, Op("Load", ZeroK, ZeroV, 0), NoRet,
                       LoadArr(Arr(data, << >>), f, 0).err)
    /\ UNCHANGED <<file, saved, aside>>

\* The keyed calls, Len and Clear, by threads.
NextLin ==
    \E t \in Threads :
        \/ RLock(t)
        \/ Read(t, TRUE)
        \/ Lock(t)
        \/ Acquire(t)
        \/ Enter(t)
        \/ AddReplace(t, TRUE)
        \/ AddShift(t)
        \/ AddAssign(t, TRUE)
        \/ DeleteMiss(t, TRUE)
        \/ DeleteShift(t)
        \/ DeleteCut(t, TRUE)
        \/ ClearAll(t, TRUE)

SpecLin == Init /\ [][NextLin]_vars

\* Every method, by threads whose visit functions leave the map alone.
NextConc ==
    \E t \in Threads :
        \/ RLock(t)
        \/ Read(t, FALSE)
        \/ RangeBegin(t, FALSE)
        \/ CallbackReturn(t, FALSE)
        \/ SaveBegin(t)
        \/ SaveEncode(t)
        \/ SaveEnd(t, FALSE)
        \/ Lock(t)
        \/ Acquire(t)
        \/ Enter(t)
        \/ AddReplace(t, FALSE)
        \/ AddShift(t)
        \/ AddAssign(t, FALSE)
        \/ DeleteMiss(t, FALSE)
        \/ DeleteShift(t)
        \/ DeleteCut(t, FALSE)
        \/ ClearAll(t, FALSE)
        \/ LoadNone(t, FALSE)

SpecConc == Init /\ [][NextConc]_vars

\* The steps a thread takes once it is inside, and a waiting writer's
\* step in: the scheduler runs every goroutine that can run.
Progress(t) ==
    \/ Read(t, FALSE)
    \/ RangeBegin(t, FALSE)
    \/ CallbackReturn(t, FALSE)
    \/ SaveBegin(t)
    \/ SaveEncode(t)
    \/ SaveEnd(t, FALSE)
    \/ Enter(t)
    \/ AddReplace(t, FALSE)
    \/ AddShift(t)
    \/ AddAssign(t, FALSE)
    \/ DeleteMiss(t, FALSE)
    \/ DeleteShift(t)
    \/ DeleteCut(t, FALSE)
    \/ ClearAll(t, FALSE)
    \/ LoadNone(t, FALSE)

\* rw.w is a sync.Mutex: a goroutine that has waited for it gets it handed
\* over (starvation mode), so one that waits while it comes free again and
\* again does get it.
Fair(t) == WF_vars(Progress(t)) /\ SF_vars(Acquire(t))

SpecLive == Init /\ [][NextConc]_vars /\ \A t \in Threads : Fair(t)

\* A visit function that calls a method of the map it ranges over: one that
\* reads (Get, Exist, Len, ...), ss.RLock() on its first line
NestedRLock(t) ==
    /\ pc[t] = "cb"
    /\ ~loc[t].nested
    /\ loc' = [loc EXCEPT ![t].nested = TRUE]
    /\ rw' = RLockRW(rw)
    /\ pc' = [pc EXCEPT ![t] = IF Admitted(rw) THEN "rin" ELSE "rblocked"]
    /\ UNCHANGED <<data, abs, lastOp, ret, file, saved, err, aside>>

\* or one that writes (Add, Delete, Clear, Load), ss.Lock() on its first line
NestedLock(t) ==
    /\ pc[t] = "cb"
    /\ ~loc[t].nested
    /\ loc' = [loc EXCEPT ![t].nested = TRUE]
    /\ pc' = [pc EXCEPT ![t] = "wantw"]
    /\ UNCHANGED <<data, abs, rw, lastOp, ret, file, saved, err, aside>>

\* Every method, by threads whose visit functions may call the map.
NextReent ==
    \/ NextConc
    \/ \E t \in Threads : NestedRLock(t) \/ NestedLock(t)

SpecReent == Init /\ [][NextReent]_vars

\* ----------------------------------------------------- the claims' words
\* Key k is stored in d, and the value stored under it, by a linear scan.
Has(d, k) == \E i \in 1..Len(d) : d[i].Key = k

ValueOf(d, k) == d[CHOOSE i \in 1..Len(d) : d[i].Key = k].Value

Reverse(s) == [i \in 1..Len(s) |-> s[Len(s) + 1 - i]]

Least(S) == CHOOSE x \in S : \A y \in S : x <= y

Greatest(S) == CHOOSE x \in S : \A y \in S : x >= y

\* ------------------------------------------------------------------- C1
\* C1: after every Add/Set/Store, Delete/Remove and Clear, starting from
\* New(), the stored sequence is strictly ascending by key: for every
\* adjacent pair data[i].Key < data[i+1].Key, so no key appears twice.
C1_Sorted ==
    /\ \A i \in 1..(Len(data) - 1) : data[i].Key < data[i + 1].Key
    /\ \A i, j \in 1..Len(data) : data[i].Key = data[j].Key => i = j

\* An Add has just placed a key between two stored ones.
C1_Witness ==
    /\ lastOp.op = "Add"
    /\ \E i \in 2..(Len(data) - 1) : data[i].Key = lastOp.key
    /\ ~again

\* ------------------------------------------------------------------- C2
\* C2: the slice refines a key-to-value map: for every key k, Get(k) is
\* (v, true) exactly when the most recent call affecting k was Add(k, v)
\* (no later Delete(k) or Clear), and Len() is the number of such keys.
C2_RefinesMap ==
    /\ \A k \in Keys :
          Get(data, k) = IF k \in DOMAIN abs THEN <<abs[k], TRUE>> ELSE <<ZeroV, FALSE>>
    /\ LenOf(data) = Cardinality(DOMAIN abs)

\* A Delete has removed one key of several, and a key holds a non-zero value.
C2_Witness ==
    /\ lastOp.op = "Delete"
    /\ ret.ok
    /\ Cardinality(DOMAIN abs) >= 2
    /\ \E k \in DOMAIN abs : abs[k] # ZeroV /\ k > lastOp.key

\* ------------------------------------------------------------------- C3
\* C3: Add(k, v1) followed by Add(k, v2) leaves Len() as it was after the
\* first Add, and Get(k) then returns (v2, true): no second entry for k.
C3_ReAdd ==
    [][(lastOp.op \in AddNames /\ lastOp'.op \in AddNames /\ lastOp'.key = lastOp.key)
         => /\ LenOf(data') = LenOf(data)
            /\ Get(data', lastOp.key) = <<lastOp'.val, TRUE>>
            /\ Cardinality({i \in 1..Len(data') : data'[i].Key = lastOp.key}) = 1]_vars

\* The second of two Adds of one key has run, with another value.
C3_Witness ==
    /\ again
    /\ lastOp.op = "Add"
    /\ lastOp.val # ZeroV
    /\ Len(data) >= 2

\* ------------------------------------------------------------------- C4
\* C4: in every reachable state and for every key k, the found flag of
\* Get(k), and of its alias Find(k), equals Exist(k); a call of one of them
\* returned what the other would.
C4_GetAgreesWithExist ==
    /\ \A k \in Keys : Get(data, k)[2] = Exist(data, k) /\ Find(data, k)[2] = Exist(data, k)
    /\ lastOp.op \in {"Get", "Find"} => ret.ok = Exist(data, lastOp.key)
    /\ lastOp.op = "Exist" => ret.ok = Get(data, lastOp.key)[2]

\* Get has found a key while a smaller key is absent and a larger one stored.
C4_Witness ==
    /\ lastOp.op = "Get"
    /\ ret.ok
    /\ \E k \in Keys : k < lastOp.key /\ ~Has(data, k)
    /\ \E k \in Keys : k > lastOp.key /\ Has(data, k)

\* ------------------------------------------------------------------- C5
\* C5: when key k is present, Delete(k) (and its alias Remove) returns the
\* value stored under k with true; afterwards Exist(k) is false, Len() is
\* one less, and every other entry is still there, with its value and in
\* the same relative order.
C5_DeletePresent ==
    [][(lastOp'.op \in {"Delete", "Remove"} /\ Has(data, lastOp'.key))
         => /\ ret'.v = ValueOf(data, lastOp'.key)
            /\ ret'.ok
            /\ ~Exist(data', lastOp'.key)
            /\ LenOf(data') = LenOf(data) - 1
            /\ data' = SelectSeq(data, LAMBDA e : e.Key # lastOp'.key)]_vars

\* Delete has removed a key that had entries on both sides.
C5_Witness ==
    /\ lastOp.op = "Delete"
    /\ ret.ok
    /\ ret.v # ZeroV
    /\ \E i, j \in 1..Len(data) : data[i].Key < lastOp.key /\ lastOp.key < data[j].Key

\* ------------------------------------------------------------------- C6
\* C6: for an absent key k (any key, on an empty map), Get(k) and Delete(k)
\* return (zero value of V, false) and leave the stored sequence and Len()
\* exactly as they were.
C6_AbsentKey ==
    [][(lastOp'.op \in {"Get", "Find", "Delete", "Remove"} /\ ~Has(data, lastOp'.key))
         => /\ ret'.v = ZeroV
            /\ ~ret'.ok
            /\ data' = data
            /\ LenOf(data') = LenOf(data)]_vars

\* Delete has missed a key that lies below a stored key.
C6_Witness ==
    /\ lastOp.op = "Delete"
    /\ ~ret.ok
    /\ ~Has(data, lastOp.key)
    /\ \E i \in 1..Len(data) : data[i].Key > lastOp.key

\* ------------------------------------------------------------------- C7
\* C7: with a visit function that always returns true, Range calls it once
\* per stored entry in strictly ascending key order and RangeBackward once
\* per stored entry in strictly descending key order: the backward visit
\* sequence is the reverse of the forward one.
C7_TraversalOrder ==
    /\ (lastOp.op \in {"Range", "RangeBackward"} /\ lastOp.n = 0)
          => /\ Len(calls) = Cardinality(DOMAIN abs)
             /\ {calls[i] : i \in 1..Len(calls)} = {<<k, abs[k]>> : k \in DOMAIN abs}
    /\ (lastOp.op = "Range" /\ lastOp.n = 0)
          => \A i \in 1..(Len(calls) - 1) : calls[i][1] < calls[i + 1][1]
    /\ (lastOp.op = "RangeBackward" /\ lastOp.n = 0)
          => /\ \A i \in 1..(Len(calls) - 1) : calls[i][1] > calls[i + 1][1]
             /\ calls = Reverse(Range(data, 0))

\* RangeBackward has visited three entries or more.
C7_Witness ==
    /\ lastOp.op = "RangeBackward"
    /\ lastOp.n = 0
    /\ Len(calls) >= 3

\* ------------------------------------------------------------------- C8
\* C8: on a map of L entries, for 1 <= N <= L, a Range or RangeBackward
\* whose visit function returns false on its N-th call calls it exactly N
\* times, on the first N entries in that direction.
C8_EarlyExit ==
    (lastOp.op \in {"Range", "RangeBackward"} /\ 1 <= lastOp.n /\ lastOp.n <= Len(data))
        => /\ Len(calls) = lastOp.n
           /\ \A i \in 1..lastOp.n :
                 LET e == IF lastOp.op = "Range" THEN data[i] ELSE data[Len(data) + 1 - i]
                 IN  calls[i] = <<e.Key, e.Value>>

\* Range has stopped before the end of the slice.
C8_Witness ==
    /\ lastOp.op = "Range"
    /\ lastOp.n >= 2
    /\ lastOp.n < Len(data)
    /\ Len(calls) = lastOp.n

\* ------------------------------------------------------------------- C9
\* C9: on a non-empty map FirstKey() (alias MinKey) is the smallest stored
\* key and First() (alias Min) the value under it; LastKey() (alias MaxKey)
\* is the largest stored key and Last() (alias Max) the value under it.
C9_Extremal ==
    DOMAIN abs # {}
        => LET lo == Least(DOMAIN abs)
               hi == Greatest(DOMAIN abs)
           IN  /\ FirstKey(data) = lo /\ MinKey(data) = lo
               /\ First(data) = abs[lo] /\ Min(data) = abs[lo]
               /\ LastKey(data) = hi /\ MaxKey(data) = hi
               /\ Last(data) = abs[hi] /\ Max(data) = abs[hi]
               /\ lastOp.op \in {"FirstKey", "MinKey"} => ret.k = lo
               /\ lastOp.op \in {"First", "Min"} => ret.v = abs[lo]
               /\ lastOp.op \in {"LastKey", "MaxKey"} => ret.k = hi
               /\ lastOp.op \in {"Last", "Max"} => ret.v = abs[hi]

\* LastKey has answered on a map of several keys.
C9_Witness ==
    /\ lastOp.op = "LastKey"
    /\ Cardinality(DOMAIN abs) >= 3
    /\ ret.k = Greatest(DOMAIN abs)
    /\ ret.k # Least(DOMAIN abs)

\* ------------------------------------------------------------------ C10
\* C10: whenever the map holds no entries (fresh, after Clear, or after
\* every key was deleted), First() and Last() return the zero value of V,
\* FirstKey() and LastKey() the zero value of K, and Len() is 0.
C10_EmptyExtremal ==
    DOMAIN abs = {}
        => /\ First(data) = ZeroV /\ Last(data) = ZeroV
           /\ FirstKey(data) = ZeroK /\ LastKey(data) = ZeroK
           /\ LenOf(data) = 0
           /\ lastOp.op \in {"First", "Last"} => ret.v = ZeroV
           /\ lastOp.op \in {"FirstKey", "LastKey"} => ret.k = ZeroK
           /\ lastOp.op = "Len" => ret.len = 0

\* The last stored key has just been deleted.
C10_Witness ==
    /\ lastOp.op = "Delete"
    /\ ret.ok
    /\ DOMAIN abs = {}
    /\ Len(data) = 0


\* ------------------------------------------------------------------ C11
\* C11: when a map that holds at least one entry has been saved with
\* success, a Load of that file on a map just returned by New(), if it
\* returns no error, leaves the map with the Len() the saved map had and
\* with the saved map's entries, the same keys and values in the same
\* order.
C11_RoundTrip ==
    [][(/\ lastOp.op = "New"
        /\ lastOp'.op = "Load"
        /\ err' = "nil"
        /\ Len(saved) >= 1)
       => (/\ LenOf(data') = LenOf(saved)
           /\ \A i \in 1..Len(saved) :
                 /\ data'[i].Key = saved[i].Key
                 /\ data'[i].Value = saved[i].Value)]_vars

\* A new map has loaded a file of two entries, one of them with the zero
\* key and one with the zero value.
C11_Witness ==
    /\ lastOp.op = "Load"
    /\ fresh
    /\ err = "nil"
    /\ Len(saved) = 2
    /\ data = saved
    /\ \E i \in 1..2 : saved[i].Key = ZeroK
    /\ \E i \in 1..2 : saved[i].Value = ZeroV
    /\ \E i \in 1..2 : saved[i].Value # ZeroV

\* ------------------------------------------------------------------ C12
\* C12: a Load that returns an error, because the file cannot be opened or
\* because decoding fails part-way, leaves the map's entry sequence exactly
\* as it was before the call.
C12_NoPartialUpdate ==
    [][(lastOp'.op = "Load" /\ err' # "nil" /\ file' = file) => data' = data]_vars

\* ------------------------------------------------------------------ C13
\* C13: after a Load that returns no error, on a map in any state, the
\* map's entry sequence is exactly the saved sequence: nothing the map held
\* before the Load is left in any entry.
C13_LoadReplaces ==
    [][(lastOp'.op = "Load" /\ err' = "nil" /\ file' = file) => data' = saved]_vars

\* ------------------------------------------------------------------ C17
\* C17: after Clear() on a map in any state Len() is 0 and Get and Exist
\* report every key absent; and every call made from then on returns what
\* it returns on a map New() returned and given the same calls, and leaves
\* the same entry sequence, held the same way.
C17_ClearResets ==
    /\ lastOp.op = "Clear" =>
          /\ LenOf(data) = 0
          /\ \A key \in IOKeys : ~Get(data, key)[2] /\ ~Exist(data, key)
    /\ twin.on =>
          /\ twin.data = data
          /\ twin.spare = spare
          /\ twin.ret = ret
          /\ twin.err = err

\* A map that held two entries was cleared; an Add and a Get later, the Get
\* finds the key on it as on the map New() returned.
C17_Witness ==
    /\ twin.on
    /\ lastOp.op = "Get"
    /\ ret.ok
    /\ twin.ret.ok
    /\ Len(data) >= 1
    /\ twin.data = data

\* ---------------------------------------------------- words for threads
\* A thread is inside the guarded section of a method that writes, of one
\* that reads.
WriterInside(t) == pc[t] \in {"win", "wadd", "wdel"}

ReaderInside(t) == pc[t] \in {"rin", "cb", "save"}

StrictlyAscending(d) == \A i \in 1..(Len(d) - 1) : d[i].Key < d[i + 1].Key

\* The map a slice stands for.
MapOf(d) == [k \in {d[i].Key : i \in 1..Len(d)} |-> ValueOf(d, k)]

\* What a call returns when it is made alone on the map m, and the map it
\* leaves.
SeqRet(m, call) ==
    CASE call.op \in {"Get", "Delete"} ->
            IF call.key \in DOMAIN m
            THEN [NoRet EXCEPT !.v = m[call.key], !.ok = TRUE]
            ELSE NoRet
      [] call.op = "Exist"    -> [NoRet EXCEPT !.ok = call.key \in DOMAIN m]
      [] call.op = "Len"      -> [NoRet EXCEPT !.len = Cardinality(DOMAIN m)]
      [] call.op = "First"    -> IF DOMAIN m = {} THEN NoRet
                                 ELSE [NoRet EXCEPT !.v = m[Least(DOMAIN m)]]
      [] call.op = "Last"     -> IF DOMAIN m = {} THEN NoRet
                                 ELSE [NoRet EXCEPT !.v = m[Greatest(DOMAIN m)]]
      [] call.op = "FirstKey" -> IF DOMAIN m = {} THEN NoRet
                                 ELSE [NoRet EXCEPT !.k = Least(DOMAIN m)]
      [] call.op = "LastKey"  -> IF DOMAIN m = {} THEN NoRet
                                 ELSE [NoRet EXCEPT !.k = Greatest(DOMAIN m)]
      [] OTHER                -> NoRet

SeqMap(m, call) ==
    CASE call.op = "Add"    -> [k \in (DOMAIN m) \cup {call.key} |->
                                  IF k = call.key THEN call.val ELSE m[k]]
      [] call.op = "Delete" -> [k \in (DOMAIN m) \ {call.key} |-> m[k]]
      [] call.op = "Clear"  -> [k \in {} |-> ZeroV]
      [] OTHER              -> m

\* ------------------------------------------------------------------ C14
\* C14: in every interleaving of the threads that share a map, while a
\* method that writes (Add, Delete, Clear, Load) is inside its guarded
\* section no other method, writing or reading, is inside its own; and the
\* methods that read (Get, Exist, Len, Range, RangeBackward, First, Last,
\* FirstKey, LastKey, Save) are not kept out by one another: one waits only
\* while a writer holds or waits for the mutex.
C14_Exclusion ==
    /\ \A t \in Threads :
          WriterInside(t) =>
              \A u \in Threads \ {t} : ~WriterInside(u) /\ ~ReaderInside(u)
    /\ \A t \in Threads :
          pc[t] = "rblocked" => rw.pending /\ rw.w \in Threads \ {t}

\* Two methods that read are inside at the same time: a Save that has
\* encoded an entry, and a Range in its visit function.
C14_Witness ==
    \E t \in Threads : \E u \in Threads \ {t} :
        /\ pc[t] = "save"
        /\ loc[t].i >= 1
        /\ pc[u] = "cb"

\* ------------------------------------------------------------------ C15
\* C15: when the visit function of a Range or RangeBackward calls a method
\* that writes (Add, Delete, Clear, Load) on the same map, that call never
\* gets the mutex, and so the Range never returns: the thread stays where
\* it is for ever.
C15_NestedWriteDeadlock ==
    [][\A t \in Threads :
          (loc[t].nested /\ pc[t] \in {"wantw", "wwait"})
              => (loc'[t].nested /\ pc'[t] \in {"wantw", "wwait"})]_vars

\* A visit function's Add has taken rw.w and waits for the readers to
\* leave, its own Range among them.
C15_Witness ==
    \E t \in Threads :
        /\ loc[t].nested
        /\ loc[t].op = "Range"
        /\ pc[t] = "wwait"
        /\ rw.w = t
        /\ rw.readerWait >= 1

\* ------------------------------------------------------------------ C16
\* C16: under fair scheduling, with threads whose visit functions return
\* and leave the map alone, every call that was made, reading or writing,
\* gets the mutex and returns; a writer is not starved by readers that
\* keep coming.
C16_NoStarvation ==
    \A t \in Threads : (pc[t] # "idle") ~> (pc[t] = "idle")

\* A writer waits for a Range that is in its visit function.
C16_Witness ==
    \E t \in Threads : \E u \in Threads \ {t} :
        /\ pc[t] = "wwait"
        /\ rw.readerWait >= 1
        /\ pc[u] = "cb"

\* ------------------------------------------------------------------ C18
\* C18: while a Save encodes, with other threads calling methods that
\* write, no Add, Delete, Clear or Load changes the slice; what the Save
\* has encoded so far is the encoding of the entries it has passed, and
\* what it writes when it ends is the encoding of the slice as it is at
\* that instant; the Save leaves the slice as it was.
C18_SaveSnapshot ==
    [][\A t \in Threads :
          pc[t] = "save" =>
              /\ data' = data
              /\ pc'[t] = "save" =>
                    loc'[t].buf = Encode(SubSeq(data, 1, loc'[t].i))
              /\ pc'[t] # "save" =>
                    /\ loc[t].n = Len(data)
                    /\ loc[t].buf = Encode(data)]_vars

\* A Save has encoded both entries of the slice while a writer waits.
C18_Witness ==
    \E t \in Threads : \E u \in Threads \ {t} :
        /\ pc[t] = "save"
        /\ loc[t].i = 2
        /\ loc[t].buf = Encode(data)
        /\ pc[u] = "wwait"

\* ------------------------------------------------------------------ C19
\* C19: for every interleaving of Add, Get, Exist, Delete, Len and Clear
\* calls by several threads on one map, each call returns, at an instant
\* between its start and its end, what it returns when the calls are made
\* one after the other in the order of those instants, and the slice is
\* then the one those calls leave; and no thread is inside a method that
\* reads while the slice is in the middle of a shift (an entry twice in
\* it, or missing).
C19_Linearizable ==
    /\ [](\A t \in Threads :
             ReaderInside(t) => StrictlyAscending(data) /\ MapOf(data) = abs)
    /\ [][\A t \in Threads :
             (pc[t] \in {"rin", "win", "wadd", "wdel"} /\ pc'[t] = "idle") =>
                 /\ ret' = SeqRet(abs, lastOp')
                 /\ abs' = SeqMap(abs, lastOp')
                 /\ StrictlyAscending(data')
                 /\ MapOf(data') = abs']_vars

\* An Add is between its copy and its assignment, an entry twice in the
\* slice, while another thread's read waits; the call before was a Get
\* that found its key.
C19_Witness ==
    \E t \in Threads : \E u \in Threads \ {t} :
        /\ pc[t] = "wadd"
        /\ ~StrictlyAscending(data)
        /\ pc[u] = "rblocked"
        /\ lastOp.op = "Get"
        /\ ret.ok

\* ------------------------------------------------------------------ C20
\* C20: when the visit function of a Range or RangeBackward calls a method
\* that reads (Get, Exist, Len) on the same map, the call waits exactly
\* when a writer has announced itself; it then waits for ever, and so does
\* the writer, which waits for the Range. With no writer waiting the call
\* goes in at once, nothing keeps it from returning, and returning to the
\* visit function is the one step it takes.
C20_NestedReadHazard ==
    /\ [](\A t \in Threads :
             (loc[t].nested /\ pc[t] = "rin") => ENABLED Read(t, FALSE))
    /\ [][\A t \in Threads :
             /\ (pc[t] = "cb" /\ loc'[t].nested /\ pc'[t] \in {"rin", "rblocked"})
                    => (pc'[t] = "rblocked" <=> rw.pending)
             /\ (loc[t].nested /\ pc[t] = "rin" /\ pc'[t] # "rin")
                    => (~loc'[t].nested /\ pc'[t] = "cb")
             /\ (loc[t].nested /\ pc[t] = "rblocked")
                    => /\ loc'[t].nested /\ pc'[t] = "rblocked"
                       /\ rw.w \in Threads /\ pc[rw.w] = "wwait"
                       /\ rw'.w = rw.w /\ pc'[rw.w] = "wwait"]_vars

\* The deadlock: a visit function's read waits behind a writer that waits
\* for the Range.
C20_Witness ==
    \E t \in Threads : \E u \in Threads \ {t} :
        /\ loc[t].nested
        /\ pc[t] = "rblocked"
        /\ pc[u] = "wwait"
        /\ rw.w = u
        /\ rw.readerWait >= 1

=============================================================================
